---- MODULE Spec2Model ----
(***************************************************************************)
(* A model of SceneManager (Source/SceneManager.cpp): the texture          *)
(* registry, the material registry, the transform composer and the shader  *)
(* state binder.  Every operation of the class is one action; each action  *)
(* records the call it models in lastCall, its return value in ret and the *)
(* uniform writes it made in writes.                                       *)
(***************************************************************************)
EXTENDS Integers, Sequences, FiniteSets, TLC

VARIABLES
    m_pShaderManager,   \* NULL or the attached shader
    m_textureIDs,       \* the 16-element array of [tag, ID]
    m_loadedTextures,   \* number of registered textures
    m_objectMaterials,  \* the vector of OBJECT_MATERIAL
    glTextures,         \* texture names the GL has generated and not deleted
    uniforms,           \* the attached shader's uniform values
    lastCall,           \* the most recent call: [op, args]
    ret,                \* what the most recent call returned
    writes,             \* the uniform writes of the most recent call, in order
    loads,              \* history: the [tag, ID] of every successful load
    oobWrite,           \* a write outside m_textureIDs[0..15] has happened
    derefNull,          \* a NULL m_pShaderManager has been dereferenced
    calls,              \* number of calls made so far
    input,              \* the arguments the next SetTransformations is given
    meshes,             \* the meshes m_basicMeshes has loaded
    glUnits,            \* the texture bound to each GL texture unit
    draws               \* the draw calls of the most recent RenderScene

vars == << m_pShaderManager, m_textureIDs, m_loadedTextures, m_objectMaterials,
           glTextures, uniforms, lastCall, ret, writes, loads, oobWrite,
           derefNull, calls, input, meshes, glUnits, draws >>

----------------------------------------------------------------------------
(* Program constants *)

TexSlots == 16

NULL == "NULL"

Shader == "shader"

g_ModelName == "model"

g_ColorValueName == "objectColor"

g_TextureValueName == "objectTexture"

g_UseTextureName == "bUseTexture"

g_UVScaleName == "UVscale"

g_MaterialDiffuseName == "material.diffuseColor"

g_MaterialSpecularName == "material.specularColor"

g_MaterialShininessName == "material.shininess"

g_UseLightingName == "bUseLighting"

\* the lights of the shader: one directional light and five point lights
LightUniformNames ==
    { "directionalLight." \o f : f \in {"direction", "ambient", "diffuse", "specular", "bActive"} }
    \cup { "pointLights[" \o i \o "]." \o f :
               i \in {"0", "1", "2", "3", "4"},
               f \in {"position", "ambient", "diffuse", "specular", "bActive"} }

UniformNames ==
    { g_ModelName, g_ColorValueName, g_TextureValueName, g_UseTextureName,
      g_UVScaleName, g_MaterialDiffuseName, g_MaterialSpecularName,
      g_MaterialShininessName, g_UseLightingName } \cup LightUniformNames

\* a uniform holds << >> until it is written and << value >> afterwards; a
\* call that returns nothing leaves ret at << >>
Unset == << >>

----------------------------------------------------------------------------
(* Bounds *)

MaxChannels == 4

MaxTexCalls == 4

MaxCapCalls == 17

MaxMatVal == 2

MaxMaterials == 3

MaxMatCalls == 4

MaxBindTextures == 2

MaxBindCalls == 4

MaxColor == 1

MaxUV == 2

MaxScale == 2

MaxQuarterTurns == 3

MaxPos == 1

MaxLookupTextures == 2

MaxLookupCalls == 4
\* calls in a run of the scene: PrepareScene and the frames after it
MaxSceneCalls == 3

----------------------------------------------------------------------------
(* Inputs *)

Tags == { "table", "wall", "ball" }

CapTags == { "table", "wall" }

\* what stbi_load makes of a file: no image, or an image of 1..MaxChannels channels
Images ==
    { [ok |-> FALSE, channels |-> 0] } \cup
    { [ok |-> TRUE, channels |-> c] : c \in 1..MaxChannels }

GoodImages == { [ok |-> TRUE, channels |-> 3] }

\* the tags looked up: the loaded ones, one that differs from a loaded one in
\* case only, and one that is never loaded
LookupTags == CapTags \cup { "Table", "ball" }

MatTags == { "ball", "wood" }

MatVals == 1..MaxMatVal

\* the material of value v: its three fields differ from each other and from
\* the fields of every other value
MaterialOf(tag, v) ==
    [tag |-> tag, diffuseColor |-> v, specularColor |-> 10 + v, shininess |-> 20 + v]

\* what an OBJECT_MATERIAL declared without an initialiser may hold: zeroes,
\* or the bits of some material
GarbageMaterials ==
    { [tag |-> "", diffuseColor |-> 0, specularColor |-> 0, shininess |-> 0] }
    \cup { MaterialOf("", v) : v \in MatVals }

Scales == (-1)..MaxScale

Angles == { 90 * k : k \in 0..MaxQuarterTurns }

Positions == 0..MaxPos

Vec3(S) == { << x, y, z >> : x \in S, y \in S, z \in S }

----------------------------------------------------------------------------
(* The texture registry *)

SetMax(S) == CHOOSE x \in S : \A y \in S : y <= x

\* glGenTextures(1, &id): a name the GL has not handed out
GenTexture == IF glTextures = {} THEN 1 ELSE SetMax(glTextures) + 1

InitTextureIDs == [i \in 0..(TexSlots - 1) |-> [tag |-> "/0", ID |-> -1]]

\* the channel test, which lets a 1-channel image through as well
ChannelsSupportedWith1(colorChannels) == colorChannels \in {1, 3, 4}

\* colorChannels == 3, else colorChannels == 4, else return false
ChannelsSupported(colorChannels) == colorChannels = 3 \/ colorChannels = 4

\* the values m_loadedTextures can hold after a store past the end of the array
OverflowCounts == 0..(TexSlots + 1)

\* m_textureIDs[m_loadedTextures] = {textureID, tag}; m_loadedTextures++
Register(textureID, tag) ==
    IF m_loadedTextures \in 0..(TexSlots - 1)
    THEN /\ m_textureIDs' =
               [m_textureIDs EXCEPT ![m_loadedTextures] = [tag |-> tag, ID |-> textureID]]
         /\ m_loadedTextures' = m_loadedTextures + 1
         /\ oobWrite' = oobWrite
    ELSE \* the store lands outside the array: undefined behaviour
         /\ m_textureIDs' = m_textureIDs
         /\ m_loadedTextures' \in OverflowCounts
         /\ oobWrite' = TRUE

CreateGLTexture(image, tag) ==
    /\ ~derefNull
    /\ lastCall' = [op |-> "CreateGLTexture", args |-> << image, tag >>]
    /\ calls' = calls + 1
    /\ IF image.ok
       THEN LET textureID == GenTexture IN
            /\ glTextures' = glTextures \cup {textureID}
            /\ IF ChannelsSupported(image.channels)
               THEN /\ Register(textureID, tag)
                    /\ loads' = Append(loads, [tag |-> tag, ID |-> textureID])
                    /\ ret' = TRUE
               ELSE /\ ret' = FALSE
                    /\ UNCHANGED << m_textureIDs, m_loadedTextures, oobWrite, loads >>
       ELSE /\ ret' = FALSE
            /\ UNCHANGED << glTextures, m_textureIDs, m_loadedTextures, oobWrite, loads >>
    /\ writes' = << >>
    /\ UNCHANGED << m_pShaderManager, m_objectMaterials, uniforms, derefNull, input,
                    meshes, glUnits, draws >>

\* the scan of FindTextureSlot, which answers 0 when it finds nothing
RECURSIVE SlotScanZero(_, _)
SlotScanZero(index, tag) ==
    IF index < m_loadedTextures
    THEN IF index >= TexSlots
         THEN {index} \cup SlotScanZero(index + 1, tag)
         ELSE IF m_textureIDs[index].tag = tag
              THEN {index}
              ELSE SlotScanZero(index + 1, tag)
    ELSE {0}

\* the scan of FindTextureSlot from index on; a read of m_textureIDs[index]
\* with index outside the array may compare equal or not
RECURSIVE SlotScan(_, _)
SlotScan(index, tag) ==
    IF index < m_loadedTextures
    THEN IF index >= TexSlots
         THEN {index} \cup SlotScan(index + 1, tag)
         ELSE IF m_textureIDs[index].tag = tag
              THEN {index}
              ELSE SlotScan(index + 1, tag)
    ELSE {-1}

FindTextureSlotResults(tag) == SlotScan(0, tag)

FindTextureSlot(tag) ==
    /\ ~derefNull
    /\ lastCall' = [op |-> "FindTextureSlot", args |-> << tag >>]
    /\ calls' = calls + 1
    /\ ret' \in FindTextureSlotResults(tag)
    /\ writes' = << >>
    /\ UNCHANGED << m_pShaderManager, m_textureIDs, m_loadedTextures,
                    m_objectMaterials, glTextures, uniforms, loads, oobWrite,
                    derefNull, input,
                    meshes, glUnits, draws >>

\* the loop of DestroyGLTextures: glGenTextures(1, &m_textureIDs[i].ID) for i < n
RECURSIVE DestroyLoop(_, _, _)
DestroyLoop(i, ids, gl) ==
    IF i < m_loadedTextures /\ i < TexSlots
    THEN LET id == IF gl = {} THEN 1 ELSE SetMax(gl) + 1 IN
         DestroyLoop(i + 1, [ids EXCEPT ![i].ID = id], gl \cup {id})
    ELSE [ids |-> ids, gl |-> gl]

DestroyGLTextures ==
    /\ ~derefNull
    /\ lastCall' = [op |-> "DestroyGLTextures", args |-> << >>]
    /\ calls' = calls + 1
    /\ LET r == DestroyLoop(0, m_textureIDs, glTextures) IN
       /\ m_textureIDs' = r.ids
       /\ glTextures' = r.gl
    /\ IF m_loadedTextures > TexSlots
       THEN /\ oobWrite' = TRUE
            /\ m_loadedTextures' \in OverflowCounts
       ELSE UNCHANGED << oobWrite, m_loadedTextures >>
    /\ ret' = Unset
    /\ writes' = << >>
    /\ UNCHANGED << m_pShaderManager, m_objectMaterials, uniforms, loads,
                    derefNull, input,
                    meshes, glUnits, draws >>

----------------------------------------------------------------------------
(* The shader: m_pShaderManager->setXValue(name, value) *)

Write(name, value) == [name |-> name, value |-> value]

RECURSIVE ApplyWrites(_, _)
ApplyWrites(u, ws) ==
    IF ws = << >> THEN u
    ELSE ApplyWrites([u EXCEPT ![Head(ws).name] = << Head(ws).value >>], Tail(ws))

\* the calls ws made through m_pShaderManager, which the caller has tested
\* against NULL
Upload(ws) ==
    /\ writes' = ws
    /\ uniforms' = ApplyWrites(uniforms, ws)
    /\ derefNull' = derefNull

\* the calls ws made through m_pShaderManager without a test against NULL
UploadUnguarded(ws) ==
    IF m_pShaderManager = NULL
    THEN /\ derefNull' = TRUE
         /\ writes' = << >>
         /\ uniforms' = uniforms
    ELSE Upload(ws)

\* setIntValue(name, bool): the implicit conversion of bool to int
BoolToInt(b) == IF b THEN 1 ELSE 0

----------------------------------------------------------------------------
(* The material registry *)

\* m_objectMaterials.push_back(material)
push_back(material) ==
    /\ ~derefNull
    /\ lastCall' = [op |-> "push_back", args |-> << material >>]
    /\ calls' = calls + 1
    /\ m_objectMaterials' = Append(m_objectMaterials, material)
    /\ ret' = Unset
    /\ writes' = << >>
    /\ UNCHANGED << m_pShaderManager, m_textureIDs, m_loadedTextures, glTextures,
                    uniforms, loads, oobWrite, derefNull, input,
                    meshes, glUnits, draws >>

CopyMaterial(material, from) ==
    [material EXCEPT !.diffuseColor = from.diffuseColor,
                     !.specularColor = from.specularColor,
                     !.shininess = from.shininess]

\* the while loop of FindMaterial, which goes on to the last match
RECURSIVE FindMaterialLoopLast(_, _, _, _)
FindMaterialLoopLast(index, bFound, tag, material) ==
    IF index < Len(m_objectMaterials)
    THEN IF m_objectMaterials[index + 1].tag = tag
         THEN FindMaterialLoopLast(index + 1, TRUE, tag,
                                   CopyMaterial(material, m_objectMaterials[index + 1]))
         ELSE FindMaterialLoopLast(index + 1, bFound, tag, material)
    ELSE [bFound |-> bFound, material |-> material]

\* the while loop of FindMaterial; index counts from 0 as in the source
RECURSIVE FindMaterialLoop(_, _, _, _)
FindMaterialLoop(index, bFound, tag, material) ==
    IF index < Len(m_objectMaterials) /\ bFound = FALSE
    THEN IF m_objectMaterials[index + 1].tag = tag
         THEN FindMaterialLoop(index, TRUE, tag,
                               CopyMaterial(material, m_objectMaterials[index + 1]))
         ELSE FindMaterialLoop(index + 1, bFound, tag, material)
    ELSE [bFound |-> bFound, material |-> material]

\* bool FindMaterial(tag, OBJECT_MATERIAL& material): the value returned and
\* what the reference parameter holds afterwards
FindMaterial(tag, material) ==
    IF Len(m_objectMaterials) = 0
    THEN [bReturn |-> FALSE, material |-> material]
    ELSE LET r == FindMaterialLoop(0, FALSE, tag, material) IN
         [bReturn |-> TRUE, material |-> r.material]

\* the three setXValue calls of SetShaderMaterial, in order
MaterialWrites(material) ==
    << Write(g_MaterialDiffuseName, material.diffuseColor),
       Write(g_MaterialSpecularName, material.specularColor),
       Write(g_MaterialShininessName, material.shininess) >>

\* a call of FindMaterial on its own, with the caller's material object
FindMaterialCall(tag, material) ==
    /\ ~derefNull
    /\ lastCall' = [op |-> "FindMaterial", args |-> << tag, material >>]
    /\ calls' = calls + 1
    /\ ret' = FindMaterial(tag, material)
    /\ writes' = << >>
    /\ UNCHANGED << m_pShaderManager, m_textureIDs, m_loadedTextures,
                    m_objectMaterials, glTextures, uniforms, loads, oobWrite,
                    derefNull, input,
                    meshes, glUnits, draws >>

\* SetShaderMaterial(materialTag); material is what the local OBJECT_MATERIAL,
\* which is declared without an initialiser, happens to hold
SetShaderMaterial(materialTag, material) ==
    /\ ~derefNull
    /\ lastCall' = [op |-> "SetShaderMaterial", args |-> << materialTag >>]
    /\ calls' = calls + 1
    /\ ret' = Unset
    /\ IF Len(m_objectMaterials) > 0
       THEN LET r == FindMaterial(materialTag, material) IN
            IF r.bReturn = TRUE
            THEN UploadUnguarded(MaterialWrites(r.material))
            ELSE /\ writes' = << >>
                 /\ UNCHANGED << uniforms, derefNull >>
       ELSE /\ writes' = << >>
            /\ UNCHANGED << uniforms, derefNull >>
    /\ UNCHANGED << m_pShaderManager, m_textureIDs, m_loadedTextures,
                    m_objectMaterials, glTextures, loads, oobWrite, input,
                    meshes, glUnits, draws >>

----------------------------------------------------------------------------
(* The transform composer.  A mat4 is a tuple of four columns, each a tuple *)
(* of four rows, as glm stores it: m[col][row].  Angles are whole quarter   *)
(* turns, for which the cosine and the sine are integers.                   *)

\* one element of mat4 * mat4
MatMulElem(A, B, c, r) ==
    A[1][r] * B[c][1] + A[2][r] * B[c][2] + A[3][r] * B[c][3] + A[4][r] * B[c][4]

\* one column of mat4 * mat4
MatMulCol(A, B, c) ==
    << MatMulElem(A, B, c, 1), MatMulElem(A, B, c, 2),
       MatMulElem(A, B, c, 3), MatMulElem(A, B, c, 4) >>

\* glm: mat4 * mat4
MatMul(A, B) ==
    << MatMulCol(A, B, 1), MatMulCol(A, B, 2), MatMulCol(A, B, 3), MatMulCol(A, B, 4) >>

\* one row of mat4 * vec4
MatVecRow(A, v, r) ==
    A[1][r] * v[1] + A[2][r] * v[2] + A[3][r] * v[3] + A[4][r] * v[4]

\* glm: mat4 * vec4
MatVec(A, v) ==
    << MatVecRow(A, v, 1), MatVecRow(A, v, 2), MatVecRow(A, v, 3), MatVecRow(A, v, 4) >>

\* cos(glm::radians(degrees))
Cos(degrees) ==
    LET d == degrees % 360 IN
    IF d = 0 THEN 1 ELSE IF d = 180 THEN -1 ELSE 0

\* sin(glm::radians(degrees))
Sin(degrees) ==
    LET d == degrees % 360 IN
    IF d = 90 THEN 1 ELSE IF d = 270 THEN -1 ELSE 0

\* glm::scale(v)
GlmScale(v) ==
    << << v[1], 0, 0, 0 >>,
       << 0, v[2], 0, 0 >>,
       << 0, 0, v[3], 0 >>,
       << 0, 0, 0, 1 >> >>

\* glm::translate(v)
GlmTranslate(v) ==
    << << 1, 0, 0, 0 >>,
       << 0, 1, 0, 0 >>,
       << 0, 0, 1, 0 >>,
       << v[1], v[2], v[3], 1 >> >>

\* glm::rotate(glm::radians(degrees), axis), axis a unit vector
GlmRotate(degrees, axis) ==
    LET c == Cos(degrees)
        s == Sin(degrees)
        temp == << (1 - c) * axis[1], (1 - c) * axis[2], (1 - c) * axis[3] >>
        Rotate == << << c + temp[1] * axis[1],
                        temp[1] * axis[2] + s * axis[3],
                        temp[1] * axis[3] - s * axis[2], 0 >>,
                     << temp[2] * axis[1] - s * axis[3],
                        c + temp[2] * axis[2],
                        temp[2] * axis[3] + s * axis[1], 0 >>,
                     << temp[3] * axis[1] + s * axis[2],
                        temp[3] * axis[2] - s * axis[1],
                        c + temp[3] * axis[3], 0 >>,
                     << 0, 0, 0, 1 >> >>
    IN Rotate

\* the product taken in the opposite order
ModelViewReversed(scale, rotationX, rotationY, rotationZ, translation) ==
    MatMul(MatMul(MatMul(MatMul(scale, rotationX), rotationY), rotationZ), translation)

\* modelView = translation * rotationZ * rotationY * rotationX * scale
ModelView(scale, rotationX, rotationY, rotationZ, translation) ==
    MatMul(MatMul(MatMul(MatMul(translation, rotationZ), rotationY), rotationX), scale)

SetTransformations(scaleXYZ, XrotationDegrees, YrotationDegrees, ZrotationDegrees, positionXYZ) ==
    /\ ~derefNull
    /\ lastCall' = [op |-> "SetTransformations",
                    args |-> << scaleXYZ, XrotationDegrees, YrotationDegrees,
                                ZrotationDegrees, positionXYZ >>]
    /\ calls' = calls + 1
    /\ ret' = Unset
    /\ LET scale == GlmScale(scaleXYZ)
           rotationX == GlmRotate(XrotationDegrees, << 1, 0, 0 >>)
           rotationY == GlmRotate(YrotationDegrees, << 0, 1, 0 >>)
           rotationZ == GlmRotate(ZrotationDegrees, << 0, 0, 1 >>)
           translation == GlmTranslate(positionXYZ)
           modelView == ModelView(scale, rotationX, rotationY, rotationZ, translation)
       IN IF NULL # m_pShaderManager
          THEN Upload(<< Write(g_ModelName, modelView) >>)
          ELSE /\ writes' = << >>
               /\ UNCHANGED << uniforms, derefNull >>
    /\ UNCHANGED << m_pShaderManager, m_textureIDs, m_loadedTextures,
                    m_objectMaterials, glTextures, loads, oobWrite, input,
                    meshes, glUnits, draws >>

----------------------------------------------------------------------------
(* The shader state binder *)

\* the two setXValue calls of SetShaderColor without the first
ColorWritesNoFlag(currentColor) ==
    << Write(g_ColorValueName, currentColor) >>

\* the two setXValue calls of SetShaderColor, in order
ColorWrites(currentColor) ==
    << Write(g_UseTextureName, BoolToInt(FALSE)),
       Write(g_ColorValueName, currentColor) >>

SetShaderColor(redColorValue, greenColorValue, blueColorValue, alphaValue) ==
    /\ ~derefNull
    /\ lastCall' = [op |-> "SetShaderColor",
                    args |-> << redColorValue, greenColorValue, blueColorValue,
                                alphaValue >>]
    /\ calls' = calls + 1
    /\ ret' = Unset
    /\ LET currentColor == << redColorValue, greenColorValue, blueColorValue,
                              alphaValue >>
       IN IF NULL # m_pShaderManager
          THEN Upload(ColorWrites(currentColor))
          ELSE /\ writes' = << >>
               /\ UNCHANGED << uniforms, derefNull >>
    /\ UNCHANGED << m_pShaderManager, m_textureIDs, m_loadedTextures,
                    m_objectMaterials, glTextures, loads, oobWrite, input,
                    meshes, glUnits, draws >>

\* the two setXValue calls of SetShaderTexture, in order
TextureWrites(textureID) ==
    << Write(g_UseTextureName, BoolToInt(TRUE)),
       Write(g_TextureValueName, textureID) >>

SetShaderTexture(textureTag) ==
    /\ ~derefNull
    /\ lastCall' = [op |-> "SetShaderTexture", args |-> << textureTag >>]
    /\ calls' = calls + 1
    /\ ret' = Unset
    /\ IF NULL # m_pShaderManager
       THEN \E textureID \in FindTextureSlotResults(textureTag) :
                Upload(TextureWrites(textureID))
       ELSE /\ writes' = << >>
            /\ UNCHANGED << uniforms, derefNull >>
    /\ UNCHANGED << m_pShaderManager, m_textureIDs, m_loadedTextures,
                    m_objectMaterials, glTextures, loads, oobWrite, input,
                    meshes, glUnits, draws >>

SetTextureUVScale(u, v) ==
    /\ ~derefNull
    /\ lastCall' = [op |-> "SetTextureUVScale", args |-> << u, v >>]
    /\ calls' = calls + 1
    /\ ret' = Unset
    /\ IF NULL # m_pShaderManager
       THEN Upload(<< Write(g_UVScaleName, << u, v >>) >>)
       ELSE /\ writes' = << >>
            /\ UNCHANGED << uniforms, derefNull >>
    /\ UNCHANGED << m_pShaderManager, m_textureIDs, m_loadedTextures,
                    m_objectMaterials, glTextures, loads, oobWrite, input,
                    meshes, glUnits, draws >>

----------------------------------------------------------------------------
(* The scene: PrepareScene and RenderScene.  The literals of the scene are
   held in hundredths: 0.07f is 7, 52.0 is 5200, 3.4f is 340.  Angles stay in
   degrees. *)

\* the tags of LoadSceneTexture, in the order it loads them
SceneTextures == << "table", "wall", "ball", "window" >>

SceneTextureTags == { SceneTextures[i] : i \in 1..Len(SceneTextures) }

\* the registry and the GL names, as the loads of LoadSceneTexture pass them on
Registry ==
    [ids |-> m_textureIDs, n |-> m_loadedTextures, gl |-> glTextures,
     loads |-> loads, oob |-> oobWrite]

\* CreateGLTexture(image, tag) on the registry reg: the registries it may leave
CreateGLTextureIn(reg, image, tag) ==
    IF image.ok
    THEN LET textureID == IF reg.gl = {} THEN 1 ELSE SetMax(reg.gl) + 1
             made == [reg EXCEPT !.gl = @ \cup {textureID}] IN
         IF ChannelsSupported(image.channels)
         THEN LET entry == [tag |-> tag, ID |-> textureID] IN
              IF reg.n \in 0..(TexSlots - 1)
              THEN { [made EXCEPT !.ids[reg.n] = entry, !.n = @ + 1,
                                  !.loads = Append(@, entry)] }
              ELSE { [made EXCEPT !.n = k, !.loads = Append(@, entry), !.oob = TRUE] :
                         k \in OverflowCounts }
         ELSE { made }
    ELSE { reg }

\* the four CreateGLTexture calls of LoadSceneTexture from the i-th on, stopping
\* at the first one that fails
RECURSIVE LoadSceneTextureStopsAtFailure(_, _, _)
LoadSceneTextureStopsAtFailure(regs, i, images) ==
    IF i > Len(SceneTextures) THEN regs
    ELSE IF images[SceneTextures[i]].ok /\ ChannelsSupported(images[SceneTextures[i]].channels)
         THEN LoadSceneTextureStopsAtFailure(
                  UNION { CreateGLTextureIn(r, images[SceneTextures[i]], SceneTextures[i]) :
                              r \in regs }, i + 1, images)
         ELSE regs

\* the four CreateGLTexture calls of LoadSceneTexture from the i-th on; bReturn
\* is assigned and never read
RECURSIVE LoadSceneTexture(_, _, _)
LoadSceneTexture(regs, i, images) ==
    IF i > Len(SceneTextures) THEN regs
    ELSE LoadSceneTexture(
             UNION { CreateGLTextureIn(r, images[SceneTextures[i]], SceneTextures[i]) :
                         r \in regs }, i + 1, images)

\* BindGLTextures: unit i is bound to m_textureIDs[i].ID for i < m_loadedTextures;
\* an index past the array reads whatever lies there
BindGLTextures(reg) ==
    { [i \in 0..(reg.n - 1) |-> IF i < TexSlots THEN reg.ids[i].ID ELSE g] @@ glUnits :
          g \in reg.gl \cup {0} }

\* LoadPlaneMesh, LoadSphereMesh, LoadCylinderMesh, LoadTorusMesh, LoadBoxMesh
SceneMeshes == { "Plane", "Sphere", "Cylinder", "Torus", "Box" }

\* the four materials DefineObjectMaterials pushes, in order
DefineObjectMaterials ==
    << [tag |-> "ball", diffuseColor |-> << 40, 40, 40 >>,
        specularColor |-> << 70, 70, 60 >>, shininess |-> 5200],
       [tag |-> "wood", diffuseColor |-> << 20, 20, 30 >>,
        specularColor |-> << 0, 0, 0 >>, shininess |-> 10],
       [tag |-> "mug", diffuseColor |-> << 80, 50, 30 >>,
        specularColor |-> << 20, 20, 20 >>, shininess |-> 1000],
       [tag |-> "metal", diffuseColor |-> << 70, 70, 70 >>,
        specularColor |-> << 100, 100, 100 >>, shininess |-> 10000] >>

\* the five setXValue calls of one point light
PointLight(name, position, ambient, diffuse, specular) ==
    << Write(name \o ".position", position),
       Write(name \o ".ambient", ambient),
       Write(name \o ".diffuse", diffuse),
       Write(name \o ".specular", specular),
       Write(name \o ".bActive", BoolToInt(TRUE)) >>

\* the setXValue calls of SetupSceneLights, in order
SetupSceneLights ==
    << Write(g_UseLightingName, BoolToInt(TRUE)),
       Write("directionalLight.direction", << 0, -100, -10 >>),
       Write("directionalLight.ambient", << 80, 80, 60 >>),
       Write("directionalLight.diffuse", << 7, 6, 4 >>),
       Write("directionalLight.specular", << 100, 90, 60 >>),
       Write("directionalLight.bActive", BoolToInt(TRUE)) >>
    \o PointLight("pointLights[0]", << -400, 800, 0 >>, << 5, 5, 5 >>,
                  << 30, 30, 10 >>, << 20, 20, 0 >>)
    \o PointLight("pointLights[1]", << 400, 800, 0 >>, << 5, 5, 5 >>,
                  << 30, 30, 10 >>, << 20, 20, 0 >>)
    \o PointLight("pointLights[2]", << 380, 550, 400 >>, << 5, 5, 5 >>,
                  << 20, 20, 0 >>, << 80, 80, 60 >>)
    \o PointLight("pointLights[3]", << 380, 350, 400 >>, << 5, 5, 5 >>,
                  << 20, 20, 0 >>, << 80, 80, 60 >>)
    \o PointLight("pointLights[4]", << -320, 600, -400 >>, << 5, 5, 5 >>,
                  << 90, 90, 70 >>, << 20, 20, 0 >>)

\* PrepareScene(), the file behind each tag decoding to images[tag]
PrepareScene(images) ==
    /\ ~derefNull
    /\ lastCall' = [op |-> "PrepareScene", args |-> << images >>]
    /\ calls' = calls + 1
    /\ \E reg \in LoadSceneTexture({Registry}, 1, images) :
           /\ m_textureIDs' = reg.ids
           /\ m_loadedTextures' = reg.n
           /\ glTextures' = reg.gl
           /\ loads' = reg.loads
           /\ oobWrite' = reg.oob
           /\ glUnits' \in BindGLTextures(reg)
    /\ meshes' = meshes \cup SceneMeshes
    /\ m_objectMaterials' = m_objectMaterials \o DefineObjectMaterials
    /\ UploadUnguarded(SetupSceneLights)
    /\ ret' = Unset
    /\ UNCHANGED << m_pShaderManager, input, draws >>

\* the model matrix of a scene object, kept as the factors of the product in
\* its order: the seams of the ball turn by 45 and 135 degrees
SceneModelView(scaleXYZ, XrotationDegrees, YrotationDegrees, ZrotationDegrees, positionXYZ) ==
    [translation |-> positionXYZ, rotationZ |-> ZrotationDegrees,
     rotationY |-> YrotationDegrees, rotationX |-> XrotationDegrees,
     scale |-> scaleXYZ]

\* one statement of a render sub-routine
Call(op, args) == [op |-> op, args |-> args]

RenderTable ==
    << Call("SetTransformations", << << 4000, 600, 2000 >>, 0, 0, 0, << 400, -300, 0 >> >>),
       Call("SetShaderTexture", << "table" >>),
       Call("SetTextureUVScale", << 100, 100 >>),
       Call("SetShaderMaterial", << "wood" >>),
       Call("DrawBoxMesh", << >>) >>

RenderLaptop ==
    << Call("SetTransformations", << << 1000, 200, 500 >>, 0, 0, 0, << 500, 0, 500 >> >>),
       Call("SetShaderColor", << 20, 20, 20, 100 >>),
       Call("SetShaderMaterial", << "metal" >>),
       Call("DrawBoxMesh", << >>),
       Call("SetTransformations", << << 800, 20, 250 >>, 0, 0, 0, << 500, 100, 600 >> >>),
       Call("SetShaderColor", << 100, 90, 90, 100 >>),
       Call("SetShaderMaterial", << "wood" >>),
       Call("DrawBoxMesh", << >>),
       Call("SetTransformations", << << 1000, 100, 1000 >>, 90, 0, 0, << 500, 500, 250 >> >>),
       Call("SetShaderColor", << 20, 20, 20, 100 >>),
       Call("SetShaderMaterial", << "metal" >>),
       Call("DrawBoxMesh", << >>),
       Call("SetTransformations", << << 800, 10, 600 >>, 90, 0, 0, << 500, 600, 300 >> >>),
       Call("SetShaderColor", << 0, 0, 0, 100 >>),
       Call("DrawBoxMesh", << >>) >>

RenderWall ==
    << Call("SetTransformations", << << 4000, 100, 4000 >>, 90, 0, 0, << 400, 1500, -800 >> >>),
       Call("SetShaderTexture", << "wall" >>),
       Call("DrawBoxMesh", << >>) >>

RenderWindow ==
    << Call("SetTransformations", << << 3000, 100, 3000 >>, 90, 0, 0, << 400, 1500, -700 >> >>),
       Call("SetShaderTexture", << "window" >>),
       Call("DrawBoxMesh", << >>) >>

RenderCoffeeMug ==
    << Call("SetTransformations", << << 200, 500, 200 >>, 0, 0, 0, << 1500, 0, 300 >> >>),
       Call("SetShaderColor", << 43, 40, 49, 100 >>),
       Call("DrawCylinderMesh", << >>),
       Call("SetTransformations", << << 150, 150, 300 >>, 0, 0, 0, << 1800, 200, 300 >> >>),
       Call("SetShaderColor", << 43, 40, 49, 100 >>),
       Call("DrawTorusMesh", << >>) >>

RenderBall ==
    << Call("SetTransformations", << << 400, 400, 400 >>, 0, 0, 0, << -700, 400, 500 >> >>),
       Call("SetShaderTexture", << "ball" >>),
       Call("SetShaderMaterial", << "ball" >>),
       Call("SetTextureUVScale", << 100, 100 >>),
       Call("DrawSphereMesh", << >>),
       Call("SetTransformations", << << 340, 340, 50 >>, 90, 0, 0, << -700, 400, 500 >> >>),
       Call("SetShaderColor", << 0, 0, 0, 100 >>),
       Call("DrawTorusMesh", << >>),
       Call("SetTransformations", << << 340, 340, 10 >>, 135, 0, 0, << -700, 400, 500 >> >>),
       Call("SetShaderColor", << 0, 0, 0, 100 >>),
       Call("DrawTorusMesh", << >>),
       Call("SetTransformations", << << 340, 340, 10 >>, 45, 0, 0, << -700, 400, 500 >> >>),
       Call("SetShaderColor", << 0, 0, 0, 100 >>),
       Call("DrawTorusMesh", << >>) >>

\* the statements of RenderScene, in the order it calls its sub-routines
RenderSceneCalls ==
    RenderTable \o RenderBall \o RenderWall \o RenderWindow \o RenderLaptop
        \o RenderCoffeeMug

DrawCalls == { "DrawBoxMesh", "DrawSphereMesh", "DrawCylinderMesh", "DrawTorusMesh" }

\* the uniforms after the calls ws, which are added to those made so far and
\* to the names written since the last draw
Uploaded(ctx, ws) ==
    [ctx EXCEPT !.uniforms = ApplyWrites(@, ws),
                !.writes = @ \o ws,
                !.block = @ \cup { ws[i].name : i \in 1..Len(ws) }]

\* one statement of a sub-routine: ctx holds the uniforms, the calls made on the
\* shader, the names written since the last draw, the draws so far and whether
\* NULL was dereferenced; material is what the local of SetShaderMaterial holds
\* and slots what FindTextureSlot answers for each tag
Statement(ctx, call, material, slots) ==
    IF ctx.derefNull THEN ctx
    ELSE IF call.op \in DrawCalls
    THEN [ctx EXCEPT !.draws = Append(@, [mesh |-> call.op, uniforms |-> ctx.uniforms,
                                          block |-> ctx.block]),
                     !.block = {}]
    ELSE IF call.op = "SetShaderMaterial"
    THEN IF Len(m_objectMaterials) > 0
         THEN LET r == FindMaterial(call.args[1], material) IN
              IF r.bReturn
              THEN IF m_pShaderManager = NULL
                   THEN [ctx EXCEPT !.derefNull = TRUE]
                   ELSE Uploaded(ctx, MaterialWrites(r.material))
              ELSE ctx
         ELSE ctx
    ELSE IF m_pShaderManager = NULL THEN ctx
    ELSE IF call.op = "SetTransformations"
    THEN Uploaded(ctx, << Write(g_ModelName,
                                SceneModelView(call.args[1], call.args[2], call.args[3],
                                               call.args[4], call.args[5])) >>)
    ELSE IF call.op = "SetShaderColor"
    THEN Uploaded(ctx, ColorWrites(call.args))
    ELSE IF call.op = "SetShaderTexture"
    THEN Uploaded(ctx, TextureWrites(slots[call.args[1]]))
    ELSE Uploaded(ctx, << Write(g_UVScaleName, call.args) >>)

RECURSIVE Statements(_, _, _, _)
Statements(ctx, body, material, slots) ==
    IF body = << >> THEN ctx
    ELSE Statements(Statement(ctx, Head(body), material, slots), Tail(body),
                    material, slots)

\* RenderScene(), with what the uninitialised local of SetShaderMaterial holds
\* and the answers of FindTextureSlot
RenderScene(material, slots) ==
    /\ ~derefNull
    /\ \A tag \in SceneTextureTags : slots[tag] \in FindTextureSlotResults(tag)
    /\ lastCall' = [op |-> "RenderScene", args |-> << >>]
    /\ calls' = calls + 1
    /\ LET ctx == Statements([uniforms |-> uniforms, writes |-> << >>, block |-> {},
                              draws |-> << >>, derefNull |-> FALSE],
                             RenderSceneCalls, material, slots) IN
           /\ uniforms' = ctx.uniforms
           /\ writes' = ctx.writes
           /\ draws' = ctx.draws
           /\ derefNull' = ctx.derefNull
    /\ ret' = Unset
    /\ UNCHANGED << m_pShaderManager, m_textureIDs, m_loadedTextures,
                    m_objectMaterials, glTextures, loads, oobWrite, input,
                    meshes, glUnits >>

----------------------------------------------------------------------------
(* Construction *)

\* SceneManager::SceneManager(pShaderManager)
Construct(pShaderManager) ==
    /\ m_pShaderManager = pShaderManager
    /\ m_textureIDs = InitTextureIDs
    /\ m_loadedTextures = 0
    /\ m_objectMaterials = << >>
    /\ glTextures = {}
    /\ uniforms = [n \in UniformNames |-> Unset]
    /\ lastCall = [op |-> "SceneManager", args |-> << pShaderManager >>]
    /\ ret = Unset
    /\ writes = << >>
    /\ loads = << >>
    /\ oobWrite = FALSE
    /\ derefNull = FALSE
    /\ calls = 0
    /\ meshes = {}
    /\ glUnits = << >>
    /\ draws = << >>

NoInput == [scale |-> << 1, 1, 1 >>, rot |-> << 0, 0, 0 >>, pos |-> << 0, 0, 0 >>]

Init == \E p \in {NULL, Shader} : Construct(p) /\ input = NoInput

InitShader == Construct(Shader) /\ input = NoInput

----------------------------------------------------------------------------
(* The texture registry under every kind of image, below its capacity *)

TexLoad == \E image \in Images, tag \in Tags :
               calls < MaxTexCalls /\ CreateGLTexture(image, tag)

TexFind == \E tag \in Tags : calls < MaxTexCalls /\ FindTextureSlot(tag)

TexDestroy == calls < MaxTexCalls /\ DestroyGLTextures

NextTex == TexLoad \/ TexFind \/ TexDestroy

SpecTex == Init /\ [][NextTex]_vars

(* The texture registry filled to and past its capacity *)

CapLoad == \E image \in GoodImages, tag \in CapTags :
               calls < MaxCapCalls /\ CreateGLTexture(image, tag)

NextCap == CapLoad

SpecCap == InitShader /\ [][NextCap]_vars

(* The material registry and SetShaderMaterial *)

MatDefine == \E tag \in MatTags, v \in MatVals :
                 /\ calls < MaxMatCalls
                 /\ Len(m_objectMaterials) < MaxMaterials
                 /\ push_back(MaterialOf(tag, v))

MatFind == \E tag \in MatTags, material \in GarbageMaterials :
               calls < MaxMatCalls /\ FindMaterialCall(tag, material)

MatSet == \E tag \in MatTags, material \in GarbageMaterials :
              calls < MaxMatCalls /\ SetShaderMaterial(tag, material)

NextMat == MatDefine \/ MatFind \/ MatSet

SpecMat == Init /\ [][NextMat]_vars

(* The shader state binder and the transform composer, with or without a shader *)

BindLoad == \E image \in GoodImages, tag \in CapTags :
                /\ calls < MaxBindCalls
                /\ m_loadedTextures < MaxBindTextures
                /\ CreateGLTexture(image, tag)

BindDefine == \E tag \in MatTags :
                  /\ calls < MaxBindCalls
                  /\ Len(m_objectMaterials) < MaxMaterials
                  /\ push_back(MaterialOf(tag, 1))

BindColor == \E r \in 0..MaxColor :
                 calls < MaxBindCalls /\ SetShaderColor(r, 0, 0, 1)

BindTexture == \E tag \in CapTags :
                   calls < MaxBindCalls /\ SetShaderTexture(tag)

BindUVScale == \E u \in 1..MaxUV :
                   calls < MaxBindCalls /\ SetTextureUVScale(u, 1)

BindMaterial == \E tag \in MatTags, material \in GarbageMaterials :
                    calls < MaxBindCalls /\ SetShaderMaterial(tag, material)

BindTransform == \E sx \in 1..MaxScale :
                     calls < MaxBindCalls
                     /\ SetTransformations(<< sx, 1, 1 >>, 0, 90, 0, << 0, 0, 0 >>)

NextBind == BindLoad \/ BindDefine \/ BindColor \/ BindTexture \/ BindUVScale
            \/ BindMaterial \/ BindTransform

SpecBind == Init /\ [][NextBind]_vars

(* The transform composer on every TransformSpec of the input sets *)

InitXform ==
    /\ Construct(Shader)
    /\ input \in [scale : Vec3(Scales), rot : Vec3(Angles), pos : Vec3(Positions)]

Compose ==
    /\ lastCall.op = "SceneManager"
    /\ SetTransformations(input.scale, input.rot[1], input.rot[2], input.rot[3],
                          input.pos)

NextXform == Compose

SpecXform == InitXform /\ [][NextXform]_vars

(* Lookups of loaded, differently cased and unknown tags in a small registry *)

LookupLoad == \E image \in Images, tag \in CapTags :
                  /\ calls < MaxLookupCalls
                  /\ m_loadedTextures < MaxLookupTextures
                  /\ CreateGLTexture(image, tag)

LookupFind == \E tag \in LookupTags :
                  calls < MaxLookupCalls /\ FindTextureSlot(tag)

LookupTexture == \E tag \in LookupTags :
                     calls < MaxLookupCalls /\ SetShaderTexture(tag)

LookupColor == calls < MaxLookupCalls /\ SetShaderColor(1, 0, 0, 1)

NextLookup == LookupLoad \/ LookupFind \/ LookupTexture \/ LookupColor

SpecLookup == Init /\ [][NextLookup]_vars

\* the scene: PrepareScene once on the new object, then frames; every file of
\* LoadSceneTexture may decode to any image or to none
ScenePrepare == \E images \in [SceneTextureTags -> Images] :
                    lastCall.op = "SceneManager" /\ PrepareScene(images)

SceneRender == \E material \in GarbageMaterials :
                   \E st \in FindTextureSlotResults("table"), sw \in FindTextureSlotResults("wall"),
                      sb \in FindTextureSlotResults("ball"), sn \in FindTextureSlotResults("window") :
                       /\ calls < MaxSceneCalls
                       /\ lastCall.op # "SceneManager"
                       /\ RenderScene(material, [tag \in SceneTextureTags |->
                                                    CASE tag = "table" -> st
                                                      [] tag = "wall" -> sw
                                                      [] tag = "ball" -> sb
                                                      [] OTHER -> sn])

NextScene == ScenePrepare \/ SceneRender

SpecScene == Init /\ [][NextScene]_vars

----------------------------------------------------------------------------
(* Properties of the texture registry *)

\* the places (counted from 1) among the successful loads at which tag was loaded
LoadPositions(tag) == { i \in 1..Len(loads) : loads[i].tag = tag }

\* C1: after any sequence of loads, FindTextureSlot of a tag that was loaded
\* exactly once returns the 0-based position of that load among the
\* successful loads, in this state and in every later one.
C1_SlotIsInsertionOrder ==
    \A tag \in Tags :
        Cardinality(LoadPositions(tag)) = 1 =>
            FindTextureSlotResults(tag) = { (CHOOSE i \in LoadPositions(tag) : TRUE) - 1 }

\* a step that is a call of op
Called(op) == calls' = calls + 1 /\ lastCall'.op = op

ImageFails(image) == ~image.ok \/ image.channels \notin {3, 4}

\* C2: a CreateGLTexture whose image cannot be decoded or has a channel count
\* other than 3 and 4 returns false, and a CreateGLTexture that returns false
\* leaves m_loadedTextures and every entry of m_textureIDs as they were.
C2_FailedLoadLeavesRegistry ==
    [][ Called("CreateGLTexture") =>
            /\ ImageFails(lastCall'.args[1]) => ret' = FALSE
            /\ ret' = FALSE => /\ m_loadedTextures' = m_loadedTextures
                               /\ m_textureIDs' = m_textureIDs ]_vars

\* a load of a decodable image of an unsupported channel count on a registry
\* that holds an entry has returned false
C2_Witness ==
    /\ lastCall.op = "CreateGLTexture"
    /\ lastCall.args[1].ok
    /\ lastCall.args[1].channels \notin {3, 4}
    /\ ret = FALSE
    /\ m_loadedTextures >= 1

\* the texture names the successful loads created
CreatedTextures == { loads[i].ID : i \in 1..Len(loads) }

\* C6: DestroyGLTextures leaves no texture that a successful load created
\* allocated, and a DestroyGLTextures that follows a DestroyGLTextures changes
\* neither the GL's textures nor the registry.
C6_ReleaseFreesAndIsIdempotent ==
    [][ Called("DestroyGLTextures") =>
            /\ CreatedTextures \cap glTextures' = {}
            /\ lastCall.op = "DestroyGLTextures" =>
                   /\ glTextures' = glTextures
                   /\ m_textureIDs' = m_textureIDs
                   /\ m_loadedTextures' = m_loadedTextures ]_vars

\* C7: the number of registered textures never exceeds 16 and no load stores
\* outside the 16 elements of m_textureIDs.
C7_EntriesWithinCapacity ==
    /\ m_loadedTextures <= TexSlots
    /\ ~oobWrite

\* C11: FindTextureSlot returns -1 for a tag that no successful load
\* registered (none at all, or only tags that differ from it, be it in case
\* only), and SetShaderTexture of such a tag, with a shader attached, still
\* writes bUseTexture true and then -1 as the sampler unit.
C11_NotFoundIsMinusOneAndIsPushed ==
    /\ (lastCall.op = "FindTextureSlot" /\ LoadPositions(lastCall.args[1]) = {})
           => ret = -1
    /\ (lastCall.op = "SetShaderTexture" /\ m_pShaderManager # NULL
           /\ LoadPositions(lastCall.args[1]) = {})
           => /\ writes = << [name |-> "bUseTexture", value |-> 1],
                             [name |-> "objectTexture", value |-> -1] >>
              /\ uniforms[g_UseTextureName] = << 1 >>
              /\ uniforms[g_TextureValueName] = << -1 >>

\* SetShaderTexture("Table") ran on a registry that holds "table" and the
\* sampler unit is -1
C11_Witness ==
    /\ m_pShaderManager # NULL
    /\ lastCall = [op |-> "SetShaderTexture", args |-> << "Table" >>]
    /\ LoadPositions("table") # {}
    /\ uniforms[g_TextureValueName] = << -1 >>

----------------------------------------------------------------------------
(* Properties of the material registry *)

MatchingIndexes(tag) ==
    { i \in 1..Len(m_objectMaterials) : m_objectMaterials[i].tag = tag }

FirstMatch(tag) ==
    m_objectMaterials[CHOOSE i \in MatchingIndexes(tag) :
                          \A j \in MatchingIndexes(tag) : i <= j]

\* C3: FindMaterial returns true exactly when some entry of m_objectMaterials
\* has the requested tag; on an empty registry and on a registry without the
\* tag it returns false.
C3_FindReportsMatchOnly ==
    lastCall.op = "FindMaterial" =>
        (ret.bReturn <=> MatchingIndexes(lastCall.args[1]) # {})

\* C4: with a shader attached, SetShaderMaterial writes the three material
\* uniforms with the fields of the matching entry when the tag is defined and
\* writes no uniform when no entry has the tag.
C4_MaterialWrittenOnlyOnMatch ==
    (lastCall.op = "SetShaderMaterial" /\ m_pShaderManager # NULL) =>
        IF MatchingIndexes(lastCall.args[1]) # {}
        THEN LET e == FirstMatch(lastCall.args[1]) IN
             writes = << [name |-> "material.diffuseColor", value |-> e.diffuseColor],
                         [name |-> "material.specularColor", value |-> e.specularColor],
                         [name |-> "material.shininess", value |-> e.shininess] >>
        ELSE writes = << >>

\* C9: when entries of m_objectMaterials share the requested tag, FindMaterial
\* hands back the diffuse colour, specular colour and shininess of the first of
\* them.
C9_FirstDefinedWins ==
    (lastCall.op = "FindMaterial" /\ MatchingIndexes(lastCall.args[1]) # {}) =>
        LET e == FirstMatch(lastCall.args[1]) IN
        /\ ret.bReturn
        /\ ret.material.diffuseColor = e.diffuseColor
        /\ ret.material.specularColor = e.specularColor
        /\ ret.material.shininess = e.shininess

\* FindMaterial was asked for a tag that the first and the third entry share,
\* with different values, and an entry of another tag lies between them
C9_Witness ==
    /\ lastCall.op = "FindMaterial"
    /\ Len(m_objectMaterials) = 3
    /\ m_objectMaterials[1].tag = lastCall.args[1]
    /\ m_objectMaterials[3].tag = lastCall.args[1]
    /\ m_objectMaterials[2].tag # lastCall.args[1]
    /\ m_objectMaterials[1].diffuseColor # m_objectMaterials[3].diffuseColor
    /\ ret.material.diffuseColor = m_objectMaterials[1].diffuseColor

----------------------------------------------------------------------------
(* Properties of the shader state binder *)

\* C5: while no shader is attached no call writes a uniform or dereferences
\* m_pShaderManager.
C5_NoShaderNoOp ==
    m_pShaderManager = NULL =>
        /\ writes = << >>
        /\ ~derefNull
        /\ \A n \in UniformNames : uniforms[n] = Unset

\* C8: with a shader attached, SetShaderColor leaves bUseTexture false,
\* SetShaderTexture leaves it true, and no other call changes it: the flag is
\* the one the last of the two wrote.
C8_LastOfColorAndTextureWins ==
    [][ (m_pShaderManager # NULL /\ calls' = calls + 1) =>
            IF lastCall'.op = "SetShaderColor"
            THEN uniforms'[g_UseTextureName] = << 0 >>
            ELSE IF lastCall'.op = "SetShaderTexture"
            THEN uniforms'[g_UseTextureName] = << 1 >>
            ELSE uniforms'[g_UseTextureName] = uniforms[g_UseTextureName] ]_vars

\* SetShaderTexture ran after a SetShaderColor and the flag is true
C8_Witness ==
    /\ m_pShaderManager # NULL
    /\ lastCall.op = "SetShaderTexture"
    /\ uniforms[g_ColorValueName] # Unset
    /\ uniforms[g_UseTextureName] = << 1 >>

----------------------------------------------------------------------------
(* Properties of the transform composer *)

ScalePoint(s, p) == << s[1] * p[1], s[2] * p[2], s[3] * p[3] >>

RotateXPoint(deg, p) ==
    << p[1], p[2] * Cos(deg) - p[3] * Sin(deg), p[2] * Sin(deg) + p[3] * Cos(deg) >>

RotateYPoint(deg, p) ==
    << p[1] * Cos(deg) + p[3] * Sin(deg), p[2], p[3] * Cos(deg) - p[1] * Sin(deg) >>

RotateZPoint(deg, p) ==
    << p[1] * Cos(deg) - p[2] * Sin(deg), p[1] * Sin(deg) + p[2] * Cos(deg), p[3] >>

TranslatePoint(t, p) == << p[1] + t[1], p[2] + t[2], p[3] + t[3] >>

TestPoints ==
    { << 0, 0, 0 >>, << 1, 0, 0 >>, << 0, 1, 0 >>, << 0, 0, 1 >>, << 1, 1, 1 >> }

\* C10: the matrix SetTransformations uploads as "model" takes every point to
\* the point got by scaling it, then rotating it about X, then Y, then Z, then
\* translating it; with scale (2,1,1) and nothing else it is the scale matrix,
\* and with rotation (0,90,0) and nothing else it takes (1,0,0) to (0,0,-1).
C10_ModelIsTRzRyRxS ==
    lastCall.op = "SetTransformations" =>
        LET a == lastCall.args
            M == uniforms[g_ModelName][1]
        IN /\ writes = << [name |-> "model", value |-> M] >>
           /\ \A p \in TestPoints :
                  LET q == TranslatePoint(a[5],
                               RotateZPoint(a[4],
                                   RotateYPoint(a[3],
                                       RotateXPoint(a[2], ScalePoint(a[1], p)))))
                  IN MatVec(M, << p[1], p[2], p[3], 1 >>) = << q[1], q[2], q[3], 1 >>
           /\ \A c \in 1..3 : M[c][4] = 0
           /\ a = << << 2, 1, 1 >>, 0, 0, 0, << 0, 0, 0 >> >> =>
                  M = << << 2, 0, 0, 0 >>, << 0, 1, 0, 0 >>,
                         << 0, 0, 1, 0 >>, << 0, 0, 0, 1 >> >>
           /\ a = << << 1, 1, 1 >>, 0, 90, 0, << 0, 0, 0 >> >> =>
                  MatVec(M, << 1, 0, 0, 1 >>) = << 0, 0, -1, 1 >>

\* SetTransformations ran with a scale, quarter turns about two axes and a
\* translation, for which the order of the factors shows
C10_Witness ==
    /\ lastCall.op = "SetTransformations"
    /\ lastCall.args = << << 2, 1, 1 >>, 90, 90, 0, << 1, 0, 0 >> >>
    /\ MatVec(uniforms[g_ModelName][1], << 1, 0, 0, 1 >>) = << 1, 0, -2, 1 >>


----------------------------------------------------------------------------
(* Scene properties *)

\* the tags of SceneTextures whose file decodes to a 3- or 4-channel image
LoadedTags(images) == SelectSeq(SceneTextures, LAMBDA tag : ~ImageFails(images[tag]))

\* the slot a tag resolves to: its place among the loads that succeeded, or -1
Resolved(tag) ==
    IF LoadPositions(tag) = {} THEN -1
    ELSE (CHOOSE i \in LoadPositions(tag) : \A j \in LoadPositions(tag) : i <= j) - 1

\* the draw calls of a frame, in order: table, ball and its three seams, wall,
\* window, the four boxes of the laptop, mug and its handle
FrameDraws ==
    << "DrawBoxMesh", "DrawSphereMesh", "DrawTorusMesh", "DrawTorusMesh",
       "DrawTorusMesh", "DrawBoxMesh", "DrawBoxMesh", "DrawBoxMesh", "DrawBoxMesh",
       "DrawBoxMesh", "DrawBoxMesh", "DrawCylinderMesh", "DrawTorusMesh" >>

\* the draw of a frame that samples each texture tag
TextureDraw == [table |-> 1, ball |-> 2, wall |-> 6, window |-> 7]

\* C12: with a shader attached, whichever of the four texture files fail to
\* load, PrepareScene returns with exactly the loadable textures registered in
\* load order and bound to units 0.., all five meshes loaded, the four
\* materials defined and every light uniform written; a RenderScene after it
\* returns having issued its thirteen draws, and the draw of each texture tag
\* samples -1 when the tag's load failed and the tag's place among the
\* successful loads otherwise.
C12_PrepareSurvivesFailedLoads ==
    m_pShaderManager # NULL =>
        /\ lastCall.op = "PrepareScene" =>
               LET ok == LoadedTags(lastCall.args[1]) IN
               /\ ~derefNull
               /\ m_loadedTextures = Len(ok)
               /\ [i \in 1..Len(loads) |-> loads[i].tag] = ok
               /\ DOMAIN glUnits = 0..(Len(ok) - 1)
               /\ \A i \in 1..Len(ok) :
                      /\ m_textureIDs[i - 1].tag = ok[i]
                      /\ m_textureIDs[i - 1].ID \in glTextures
                      /\ glUnits[i - 1] = m_textureIDs[i - 1].ID
               /\ meshes = { "Plane", "Sphere", "Cylinder", "Torus", "Box" }
               /\ [i \in 1..Len(m_objectMaterials) |-> m_objectMaterials[i].tag]
                      = << "ball", "wood", "mug", "metal" >>
               /\ uniforms[g_UseLightingName] = << 1 >>
               /\ \A name \in LightUniformNames : uniforms[name] # Unset
        /\ lastCall.op = "RenderScene" =>
               /\ ~derefNull
               /\ [i \in 1..Len(draws) |-> draws[i].mesh] = FrameDraws
               /\ \A tag \in SceneTextureTags :
                      /\ draws[TextureDraw[tag]].uniforms[g_UseTextureName] = << 1 >>
                      /\ draws[TextureDraw[tag]].uniforms[g_TextureValueName]
                             = << Resolved(tag) >>

\* a frame after the loads of "table" and "ball" failed and the other two
\* succeeded: the table samples -1, the wall unit 0 and the window unit 1
C12_Witness ==
    /\ m_pShaderManager # NULL
    /\ lastCall.op = "RenderScene"
    /\ [i \in 1..Len(loads) |-> loads[i].tag] = << "wall", "window" >>
    /\ Len(draws) = 13
    /\ draws[1].uniforms[g_TextureValueName] = << -1 >>
    /\ draws[6].uniforms[g_TextureValueName] = << 0 >>
    /\ draws[7].uniforms[g_TextureValueName] = << 1 >>

MaterialUniformNames ==
    { g_MaterialDiffuseName, g_MaterialSpecularName, g_MaterialShininessName }

\* the uniforms a draw consumes: the model matrix, the texture flag, the
\* sampler and the UV scale when the flag is set and the flat colour when it is
\* not, and the material
Consumed(draw) ==
    { g_ModelName, g_UseTextureName } \cup MaterialUniformNames
    \cup (IF draw.uniforms[g_UseTextureName] = << 1 >>
          THEN { g_TextureValueName, g_UVScaleName }
          ELSE { g_ColorValueName })

\* C13: every uniform a draw of RenderScene consumes was written by a set-call
\* of the draw's own block, that is after the draw before it.
C13_DrawStateFromOwnBlock ==
    \A i \in 1..Len(draws) : Consumed(draws[i]) \subseteq draws[i].block

====
